---------------------------- MODULE Spec2Model ----------------------------
(***************************************************************************)
(* image-drift-generator: the frame generator (src/src/generate_frames.py) *)
(* and the encoder front end (src/src/encode_webm.py).                     *)
(*                                                                         *)
(* Numbers.  Python floats are modelled in fixed point: times, noise and   *)
(* sine values and pixel offsets are integers in thousandths (a noise or   *)
(* sine value v in [-1, 1] is the integer 1000*v), SCALE is in hundredths, *)
(* cycle counts are in tenths, angles are whole degrees.  Amplitudes and   *)
(* DURATION_SECONDS are whole numbers.                                     *)
(*                                                                         *)
(* Strings.  File names, patterns and command words are TLA+ strings; a    *)
(* string that the code parses (a noise seed) is a sequence of one-letter  *)
(* strings.  A value that may be absent is a record [set, val].            *)
(***************************************************************************)
EXTENDS Integers, Sequences, FiniteSets, TLC

VARIABLES
    env,            \* the process environment both scripts read at import
    cfg,            \* generate_frames.py module globals (lines 42-78)
    preview_only,   \* main's preview_flag / generate_frames' argument
    pc,             \* position of the generator run
    exc,            \* exception leaving generate_frames ("none" if none)
    failed_in,      \* the step of generate_frames that raised it
    exit_code,      \* generator process exit status (-1 while running)
    dirs,           \* output directories created by ensure_dirs
    image_status,   \* what the file system answered for INPUT_IMAGE
    img,            \* size of the scaled source image
    base,           \* base_x, base_y
    preview_written,\* <OUTPUT_DIR>/<BASENAME>_preview.png exists
    noise_gen,      \* the OpenSimplex generator (its seed)
    used_seed,      \* seed reported by make_noise
    noise_calls,    \* number of make_noise calls of the run
    pad,            \* zero-pad width of the run
    i,              \* loop variable of the frame loop
    written,        \* frame files saved so far, in write order
    ecfg,           \* encode_webm.py module globals (lines 35-40)
    epc,            \* position of the encoder's main
    fs,             \* what the encoder finds: frames dir, encoder binary
    epad,           \* pad of build_pattern_and_out
    pattern,        \* build_pattern_and_out()[0]
    outpath,        \* build_pattern_and_out()[1]
    proc_cmd,       \* argv of the encoder process started (<<>> if none)
    proc_cwd,       \* its working directory
    printed,        \* lines printed by the encoder's main
    erc,            \* return value of the encoder's main (-1 while running)
    gen_names,      \* frame file names the generator produces (encoder spec)
    call,           \* last call of a function called alone and its result
    noise_log       \* the make_noise calls made so far and their results

genVars == <<preview_only, pc, exc, failed_in, exit_code, dirs, image_status, img, base,
             preview_written, noise_gen, used_seed, noise_calls, pad, i,
             written>>
encVars == <<ecfg, epc, fs, epad, pattern, outpath, proc_cmd, proc_cwd, printed,
             erc, gen_names>>
fnVars == <<call, noise_log>>
vars == <<env, cfg, genVars, encVars, fnVars>>

-----------------------------------------------------------------------------
(* Bounds of the model *)

\* frame counts explored by the frame loop: TOTAL_FRAMES in -1..MaxFrames
MaxFrames == 3
\* random.randint(0, 2**30-1) is drawn from 0..MaxRandSeed
MaxRandSeed == 2

-----------------------------------------------------------------------------
(* Arithmetic and text helpers *)

Max(a, b) == IF a >= b THEN a ELSE b

Abs(a) == IF a < 0 THEN -a ELSE a

\* Python round(n/d), d > 0: to nearest, ties to even
RoundDiv(n, d) ==
    LET q == n \div d
        r == n % d
    IN  IF 2 * r < d THEN q
        ELSE IF 2 * r > d THEN q + 1
        ELSE IF q % 2 = 0 THEN q ELSE q + 1

DigitStr(d) ==
    CASE d = 0 -> "0" [] d = 1 -> "1" [] d = 2 -> "2" [] d = 3 -> "3"
      [] d = 4 -> "4" [] d = 5 -> "5" [] d = 6 -> "6" [] d = 7 -> "7"
      [] d = 8 -> "8" [] d = 9 -> "9"

\* str(n) of an int
RECURSIVE StrNat(_)
StrNat(n) == IF n < 10 THEN DigitStr(n) ELSE StrNat(n \div 10) \o DigitStr(n % 10)

Str(n) == IF n < 0 THEN "-" \o StrNat(-n) ELSE StrNat(n)

RECURSIVE Zeros(_)
Zeros(k) == IF k <= 0 THEN "" ELSE "0" \o Zeros(k - 1)

\* "{:0<width>d}".format(n) and printf's %0<width>d
ZeroPad(n, width) ==
    IF n < 0 THEN "-" \o Zeros(width - 1 - Len(StrNat(-n))) \o StrNat(-n)
    ELSE Zeros(width - Len(StrNat(n))) \o StrNat(n)

\* str.lower() on the mode names that occur
Lower(s) ==
    CASE s = "SINE" -> "sine"
      [] s = "Perlin" -> "perlin"
      [] OTHER -> s

\* os.path.join(dir, name)
PathJoin(d, name) == d \o "/" \o name

Unset == [set |-> FALSE, val |-> 0]
Set(v) == [set |-> TRUE, val |-> v]

\* env(name, default) for a numeric variable
EnvOr(v, default) == IF v.set THEN v.val ELSE default

-----------------------------------------------------------------------------
(* generate_frames.py: configuration *)

\* an environment in which nothing is set
NoEnv ==
    [INPUT_IMAGE |-> Unset, OUTPUT_DIR |-> Unset, FRAMES_DIR |-> Unset,
     FINAL_DIR |-> Unset, BASENAME |-> Unset, OUT_W |-> Unset, OUT_H |-> Unset,
     DURATION_SECONDS |-> Unset, FPS |-> Unset, TOTAL_FRAMES |-> Unset,
     TARGET_PIXEL_WIDTH |-> Unset, SCALE |-> Unset, BASE_POS_MODE |-> Unset,
     BASE_CENTER_OFFSET_X |-> Unset, BASE_CENTER_OFFSET_Y |-> Unset,
     BASE_X |-> Unset, BASE_Y |-> Unset, MOTION_MODE |-> Unset,
     AMP_X |-> Unset, AMP_Y |-> Unset, NOISE_TIMESCALE_SECONDS |-> Unset,
     NOISE_SEED |-> Unset, SINE_CYCLES_X |-> Unset, SINE_CYCLES_Y |-> Unset,
     FFMPEG_BIN |-> Unset]

\* a seed argument of make_noise: None, a str (its letters) or an int
SeedNone == [kind |-> "none", chars |-> <<>>, n |-> 0]
SeedStr(cs) == [kind |-> "str", chars |-> cs, n |-> 0]
SeedInt(k) == [kind |-> "int", chars |-> <<>>, n |-> k]

\* the module globals of generate_frames.py, read from the environment at
\* import.  SCALE in hundredths, NOISE_TIMESCALE_SECONDS in thousandths,
\* SINE_CYCLES_* in tenths.
LoadConfig(e) ==
    LET output_dir == EnvOr(e.OUTPUT_DIR, "output")
        duration == EnvOr(e.DURATION_SECONDS, 30)
        fps == EnvOr(e.FPS, 30)
    IN  [INPUT_IMAGE |-> EnvOr(e.INPUT_IMAGE, "input/image.png"),
         OUTPUT_DIR |-> output_dir,
         FRAMES_DIR |-> EnvOr(e.FRAMES_DIR, PathJoin(output_dir, "frames")),
         FINAL_DIR |-> EnvOr(e.FINAL_DIR, PathJoin(output_dir, "final")),
         BASENAME |-> EnvOr(e.BASENAME, "testframe"),
         OUT_W |-> EnvOr(e.OUT_W, 1080),
         OUT_H |-> EnvOr(e.OUT_H, 1920),
         DURATION_SECONDS |-> duration,
         FPS |-> fps,
         TOTAL_FRAMES |-> EnvOr(e.TOTAL_FRAMES, duration * fps),
         TARGET_PIXEL_WIDTH |-> e.TARGET_PIXEL_WIDTH,
         SCALE |-> EnvOr(e.SCALE, 65),
         BASE_POS_MODE |-> EnvOr(e.BASE_POS_MODE, "center"),
         BASE_CENTER_OFFSET_X |-> EnvOr(e.BASE_CENTER_OFFSET_X, 0),
         BASE_CENTER_OFFSET_Y |-> EnvOr(e.BASE_CENTER_OFFSET_Y, 0),
         BASE_X |-> EnvOr(e.BASE_X, 100),
         BASE_Y |-> EnvOr(e.BASE_Y, 200),
         MOTION_MODE |-> Lower(EnvOr(e.MOTION_MODE, "perlin")),
         AMP_X |-> EnvOr(e.AMP_X, 18),
         AMP_Y |-> EnvOr(e.AMP_Y, 12),
         NOISE_TIMESCALE_SECONDS |-> EnvOr(e.NOISE_TIMESCALE_SECONDS, 12000),
         NOISE_SEED |-> SeedStr(EnvOr(e.NOISE_SEED, <<>>)),
         SINE_CYCLES_X |-> EnvOr(e.SINE_CYCLES_X, 6),
         SINE_CYCLES_Y |-> EnvOr(e.SINE_CYCLES_Y, 5),
         FFMPEG_BIN |-> EnvOr(e.FFMPEG_BIN, "ffmpeg")]

ConfigParams ==
    {"INPUT_IMAGE", "OUT_W", "OUT_H", "DURATION_SECONDS", "FPS",
     "TOTAL_FRAMES", "SCALE", "TARGET_PIXEL_WIDTH", "MOTION_MODE",
     "NOISE_TIMESCALE_SECONDS", "SINE_CYCLES_X", "SINE_CYCLES_Y",
     "BASE_POS_MODE"}

\* the errors list of validate_config, as the names of the parameters it
\* reports, for the checks on the parameters in params
config_errors(c, params) ==
    {n \in params :
        \/ n = "INPUT_IMAGE" /\ c.INPUT_IMAGE = ""
        \/ n = "OUT_W" /\ c.OUT_W <= 0
        \/ n = "OUT_H" /\ c.OUT_H <= 0
        \/ n = "DURATION_SECONDS" /\ c.DURATION_SECONDS <= 0
        \/ n = "FPS" /\ c.FPS <= 0
        \/ n = "TOTAL_FRAMES" /\ c.TOTAL_FRAMES <= 0
        \/ n = "SCALE" /\ c.SCALE <= 0
        \/ n = "TARGET_PIXEL_WIDTH"
             /\ c.TARGET_PIXEL_WIDTH.set
             /\ c.TARGET_PIXEL_WIDTH.val # 0
             /\ c.TARGET_PIXEL_WIDTH.val <= 0
        \/ n = "MOTION_MODE" /\ c.MOTION_MODE \notin {"perlin", "sine"}
        \/ n = "NOISE_TIMESCALE_SECONDS" /\ c.NOISE_TIMESCALE_SECONDS <= 0
        \/ n = "SINE_CYCLES_X" /\ c.SINE_CYCLES_X < 0
        \/ n = "SINE_CYCLES_Y" /\ c.SINE_CYCLES_Y < 0
        \/ n = "BASE_POS_MODE" /\ c.BASE_POS_MODE \notin {"center", "coords"}}

\* a validate_config that does not check MOTION_MODE
validate_config_no_mode(c) == config_errors(c, ConfigParams \ {"MOTION_MODE"})

\* validate_config: it raises ConfigError iff the errors list is not empty
validate_config(c) == config_errors(c, ConfigParams)

-----------------------------------------------------------------------------
(* generate_frames.py: image preparation and placement *)

\* load_and_scale_image: status is what the file system answers for
\* INPUT_IMAGE, size0 the size of the decoded image.  The result names the
\* exception the function raises ("none": it returns an image of size w x h).
load_and_scale_image(c, status, size0) ==
    IF status = "missing" THEN [exc |-> "ConfigError", w |-> 0, h |-> 0]
    ELSE IF status = "unreadable" THEN [exc |-> "ConfigError", w |-> 0, h |-> 0]
    ELSE
        LET tpw == c.TARGET_PIXEL_WIDTH
            target_w == IF tpw.set /\ tpw.val # 0 THEN tpw.val
                        ELSE RoundDiv(size0.w * c.SCALE, 100)
            target_h == IF tpw.set /\ tpw.val # 0
                        THEN RoundDiv(size0.h * tpw.val, size0.w)
                        ELSE RoundDiv(size0.h * c.SCALE, 100)
        IN  IF target_w <= 0 \/ target_h <= 0
            THEN [exc |-> "ValueError", w |-> 0, h |-> 0]   \* Image.resize
            ELSE [exc |-> "none", w |-> target_w, h |-> target_h]

\* a compute_base_position whose division by two rounds toward zero
compute_base_position_trunc(c, img_w, img_h) ==
    LET half(n) == IF n >= 0 THEN n \div 2 ELSE -((-n) \div 2)
    IN  IF c.BASE_POS_MODE = "center"
        THEN [x |-> half(c.OUT_W - img_w) + c.BASE_CENTER_OFFSET_X,
              y |-> half(c.OUT_H - img_h) + c.BASE_CENTER_OFFSET_Y]
        ELSE [x |-> c.BASE_X, y |-> c.BASE_Y]

\* compute_base_position: Python's // is floor division, as \div is
compute_base_position(c, img_w, img_h) ==
    IF c.BASE_POS_MODE = "center"
    THEN [x |-> (c.OUT_W - img_w) \div 2 + c.BASE_CENTER_OFFSET_X,
          y |-> (c.OUT_H - img_h) \div 2 + c.BASE_CENTER_OFFSET_Y]
    ELSE [x |-> c.BASE_X, y |-> c.BASE_Y]

\* a zero_pad_width that is always 4
zero_pad_width_four(total) == 4

\* max(4, len(str(int(total))))
zero_pad_width(total) == Max(4, Len(Str(total)))

\* os.path.join(OUTPUT_DIR, f"{BASENAME}_preview.png")
preview_path(c) == PathJoin(c.OUTPUT_DIR, c.BASENAME \o "_preview.png")

-----------------------------------------------------------------------------
(* generate_frames.py: noise and motion *)

Digits == {"0", "1", "2", "3", "4", "5", "6", "7", "8", "9"}

DigitVal(ch) ==
    CASE ch = "0" -> 0 [] ch = "1" -> 1 [] ch = "2" -> 2 [] ch = "3" -> 3
      [] ch = "4" -> 4 [] ch = "5" -> 5 [] ch = "6" -> 6 [] ch = "7" -> 7
      [] ch = "8" -> 8 [] ch = "9" -> 9

RECURSIVE Strip(_)
\* str.strip() on blanks
Strip(cs) ==
    IF cs = <<>> THEN cs
    ELSE IF Head(cs) = " " THEN Strip(Tail(cs))
    ELSE IF cs[Len(cs)] = " " THEN Strip(SubSeq(cs, 1, Len(cs) - 1))
    ELSE cs

RECURSIVE DigitsVal(_)
DigitsVal(cs) ==
    IF cs = <<>> THEN 0
    ELSE 10 * DigitsVal(SubSeq(cs, 1, Len(cs) - 1)) + DigitVal(cs[Len(cs)])

\* int(s) of a str over digits, signs, blanks and letters: surrounding
\* blanks are dropped, one sign is allowed, at least one digit must follow
\* and nothing else; ok = FALSE is ValueError
ParseInt(cs) ==
    LET s == Strip(cs)
        signed == s # <<>> /\ Head(s) \in {"-", "+"}
        body == IF signed THEN Tail(s) ELSE s
        ok == body # <<>> /\ \A k \in 1..Len(body) : body[k] \in Digits
    IN  [ok |-> ok,
         val |-> IF ~ok THEN 0
                 ELSE IF signed /\ Head(s) = "-" THEN -DigitsVal(body)
                 ELSE DigitsVal(body)]

\* OpenSimplex(seed): the generator is determined by its seed
OpenSimplex(seed_int) == [seed |-> seed_int]

\* gen.noise2d(x, y): a value in [-1, 1] (thousandths) fixed by the seed and
\* the query point (x, y in thousandths); the generator is not changed
noise2d(gen, x, y) ==
    (((gen.seed % 2001) * 7 + (x % 2001) * 31 + (y % 2001) * 17
        + (x % 211) * (y % 223)) % 2001) - 1000

\* a make_noise that draws a seed whatever it is given
make_noise_always_random(seed, rnd) ==
    [gen |-> OpenSimplex(rnd), seed |-> rnd]

\* make_noise(seed): rnd is the value random.randint(0, 2**30-1) returns
\* when it is called
make_noise(seed, rnd) ==
    LET seed_int ==
            IF seed.kind = "none" \/ (seed.kind = "str" /\ seed.chars = <<>>)
            THEN rnd
            ELSE IF seed.kind = "int" THEN seed.n
            ELSE IF ParseInt(seed.chars).ok THEN ParseInt(seed.chars).val
            ELSE rnd
    IN  [gen |-> OpenSimplex(seed_int), seed |-> seed_int]

\* perlin_like_offsets: t_seconds and timescale_seconds in thousandths,
\* seed offsets in whole units; the result in thousandths of a pixel
perlin_like_offsets(gen, t_seconds, amp_x, amp_y, timescale_seconds, seed_offset_x, seed_offset_y) ==
    LET tf == (t_seconds * 1000) \div Max(1, timescale_seconds)
        nx == noise2d(gen, tf + 1000 * seed_offset_x, 0)
        ny == noise2d(gen, tf + 1000 * seed_offset_y, 33330)
    IN  [dx |-> nx * amp_x, dy |-> ny * amp_y]

\* math.sin of an angle in whole degrees, in thousandths (Bhaskara's
\* rational approximation, exact at 0, 30, 90, 150 and 180 degrees)
Sin(deg) ==
    LET d == deg % 360
        h == IF d <= 180 THEN d ELSE d - 180
        p == h * (180 - h)
        v == (4000 * p) \div (40500 - p)
    IN  IF d <= 180 THEN v ELSE -v

\* a sine_offsets that scales dx by amp_y and dy by amp_x
sine_offsets_swapped(t_seconds, duration, amp_x, amp_y, cycles_x, cycles_y) ==
    LET turn(cycles) == (360 * t_seconds * cycles) \div (Max(1, duration) * 10)
    IN  [dx |-> Sin(turn(cycles_x)) * amp_y,
         dy |-> Sin(turn(cycles_y) + 97) * amp_x]

\* sine_offsets: t_seconds and duration in thousandths, cycles in tenths;
\* 1.7 rad is 97 degrees; the result in thousandths of a pixel
sine_offsets(t_seconds, duration, amp_x, amp_y, cycles_x, cycles_y) ==
    LET turn(cycles) == (360 * t_seconds * cycles) \div (Max(1, duration) * 10)
    IN  [dx |-> Sin(turn(cycles_x)) * amp_x,
         dy |-> Sin(turn(cycles_y) + 97) * amp_y]

-----------------------------------------------------------------------------
(* generate_frames.py: the frame loop's computations *)

\* t_seconds = i * (DURATION_SECONDS / max(1, TOTAL_FRAMES)), in thousandths
t_seconds(c, k) == (k * c.DURATION_SECONDS * 1000) \div Max(1, c.TOTAL_FRAMES)

\* (dx, dy) of frame k: the branch on MOTION_MODE in the loop body
frame_offsets(c, gen, k) ==
    IF c.MOTION_MODE = "perlin"
    THEN perlin_like_offsets(gen, t_seconds(c, k), c.AMP_X, c.AMP_Y,
                             c.NOISE_TIMESCALE_SECONDS, 0, 100)
    ELSE sine_offsets(t_seconds(c, k), c.DURATION_SECONDS * 1000, c.AMP_X,
                      c.AMP_Y, c.SINE_CYCLES_X, c.SINE_CYCLES_Y)

\* paste_x = int(round(base_x + dx)), paste_y = int(round(base_y + dy))
frame_paste(c, gen, b, k) ==
    LET d == frame_offsets(c, gen, k)
    IN  [x |-> RoundDiv(b.x * 1000 + d.dx, 1000),
         y |-> RoundDiv(b.y * 1000 + d.dy, 1000)]

\* a loop body that stores the paste position back into base_x, base_y
base_after_frame_drift(b, paste) == paste

\* the loop body assigns paste_x, paste_y and leaves base_x, base_y alone
base_after_frame(b, paste) == b

\* a zero-based frame number
frame_idx_zero_based(k) == k

\* idx = i + 1
frame_idx(k) == k + 1

\* fname_template.format(idx)
frame_name(c, width, idx) == c.BASENAME \o "_" \o ZeroPad(idx, width) \o ".png"

\* a generate_frames that ignores preview_only
after_preview_ignored(only) == "make_noise"

\* where generate_frames goes after the preview is written
after_preview(only) == IF only THEN "returned" ELSE "make_noise"

\* try/except around ensure_dirs and load_and_scale_image: any exception
\* leaves generate_frames as GenerationError("setup failed")
setup_except(e) == "GenerationError"

\* try/except around build_preview: GenerationError("preview failed")
preview_except(e) == "GenerationError"

\* the frame loop is in no try block: the exception leaves as it is
frame_except(e) == e

\* main's except clauses: the exit status for an exception
main_exit(e) ==
    CASE e = "none" -> 0
      [] e = "ConfigError" -> 2
      [] e = "GenerationError" -> 3
      [] OTHER -> 1

-----------------------------------------------------------------------------
(* The generator run: main -> generate_frames *)

\* sizes of the decoded source image
SourceSizes == {[w |-> 80, h |-> 40], [w |-> 51, h |-> 21]}

\* environments of the generator run
GenEnvs ==
    {[NoEnv EXCEPT !.INPUT_IMAGE = Set(inp), !.OUT_W = Set(ow),
                   !.OUT_H = Set(oh), !.DURATION_SECONDS = Set(dur),
                   !.FPS = Set(fps), !.TOTAL_FRAMES = tot, !.SCALE = Set(sc),
                   !.TARGET_PIXEL_WIDTH = tpw, !.MOTION_MODE = Set(mm),
                   !.BASE_POS_MODE = Set(bm), !.NOISE_SEED = seed,
                   !.BASE_CENTER_OFFSET_X = Set(5),
                   !.BASE_CENTER_OFFSET_Y = Set(-3)] :
        inp \in {"", "in.png"}, ow \in {0, 200}, oh \in {-1, 100},
        dur \in {0, 1}, fps \in {0, 2},
        tot \in {Unset} \cup {Set(n) : n \in -1..MaxFrames},
        sc \in {0, 65}, tpw \in {Unset, Set(0), Set(40), Set(-5)},
        mm \in {"perlin", "SINE", "bounce"},
        bm \in {"center", "coords", "corner"},
        seed \in {Unset, Set(<<"2">>)}}

NoSize == [w |-> 0, h |-> 0]
NoPos == [x |-> 0, y |-> 0]

EncIdle ==
    /\ ecfg = [FRAMES_DIR |-> "", FINAL_DIR |-> "", BASENAME |-> "", FPS |-> 0,
               TOTAL_FRAMES |-> 0, FFMPEG_BIN |-> ""]
    /\ epc = "idle"
    /\ fs = [frames_dir |-> FALSE, ffmpeg |-> FALSE]
    /\ epad = 0
    /\ pattern = ""
    /\ outpath = ""
    /\ proc_cmd = <<>>
    /\ proc_cwd = ""
    /\ printed = <<>>
    /\ erc = -1
    /\ gen_names = {}

NoCall == [fn |-> "none"]

GenStart ==
    /\ pc = "validate"
    /\ exc = "none"
    /\ failed_in = "none"
    /\ exit_code = -1
    /\ dirs = {}
    /\ image_status = "unknown"
    /\ img = NoSize
    /\ base = NoPos
    /\ preview_written = FALSE
    /\ noise_gen = OpenSimplex(-1)
    /\ used_seed = -1
    /\ noise_calls = 0
    /\ pad = 0
    /\ i = 0
    /\ written = <<>>

Init ==
    /\ env \in GenEnvs
    /\ cfg = LoadConfig(env)
    /\ preview_only \in BOOLEAN
    /\ GenStart
    /\ EncIdle
    /\ call = NoCall
    /\ noise_log = <<>>

\* generate_frames, lines 286-290: validate_config() first
Validate ==
    /\ pc = "validate"
    /\ IF validate_config(cfg) # {}
       THEN pc' = "raised" /\ exc' = "ConfigError" /\ failed_in' = "validate"
       ELSE pc' = "ensure_dirs" /\ UNCHANGED <<exc, failed_in>>
    /\ UNCHANGED <<env, cfg, preview_only, exit_code, dirs, image_status, img,
                   base, preview_written, noise_gen, used_seed, noise_calls,
                   pad, i, written, encVars, fnVars>>

\* ensure_dirs: makedirs(FRAMES_DIR), then makedirs(FINAL_DIR); an OSError
\* is raised as GenerationError, which generate_frames catches and re-raises
EnsureDirs ==
    /\ pc = "ensure_dirs"
    /\ \E outcome \in {"ok", "frames_fails", "final_fails"} :
        /\ dirs' = CASE outcome = "ok" -> {"frames", "final"}
                     [] outcome = "final_fails" -> {"frames"}
                     [] OTHER -> {}
        /\ IF outcome = "ok"
           THEN pc' = "load" /\ UNCHANGED <<exc, failed_in>>
           ELSE /\ pc' = "raised"
                /\ exc' = setup_except("GenerationError")
                /\ failed_in' = "ensure_dirs"
    /\ UNCHANGED <<env, cfg, preview_only, exit_code, image_status, img, base,
                   preview_written, noise_gen, used_seed, noise_calls, pad, i,
                   written, encVars, fnVars>>

\* img = load_and_scale_image(); base_x, base_y = compute_base_position(...)
LoadImage ==
    /\ pc = "load"
    /\ \E status \in {"ok", "missing", "unreadable"}, size0 \in SourceSizes :
        LET r == load_and_scale_image(cfg, status, size0)
        IN  /\ image_status' = status
            /\ IF r.exc # "none"
               THEN /\ pc' = "raised"
                    /\ exc' = setup_except(r.exc)
                    /\ failed_in' = "load"
                    /\ UNCHANGED <<img, base>>
               ELSE /\ pc' = "preview"
                    /\ UNCHANGED <<exc, failed_in>>
                    /\ img' = [w |-> r.w, h |-> r.h]
                    /\ base' = compute_base_position(cfg, r.w, r.h)
    /\ UNCHANGED <<env, cfg, preview_only, exit_code, dirs, preview_written,
                   noise_gen, used_seed, noise_calls, pad, i, written, encVars,
                   fnVars>>

\* build_preview(...) saves the preview; then the preview_only return
BuildPreview ==
    /\ pc = "preview"
    /\ \E saved \in BOOLEAN :
        IF saved
        THEN /\ preview_written' = TRUE
             /\ pc' = after_preview(preview_only)
             /\ UNCHANGED <<exc, failed_in>>
        ELSE /\ preview_written' = preview_written
             /\ pc' = "raised"
             /\ exc' = preview_except("OSError")
             /\ failed_in' = "preview"
    /\ UNCHANGED <<env, cfg, preview_only, exit_code, dirs, image_status, img,
                   base, noise_gen, used_seed, noise_calls, pad, i, written,
                   encVars, fnVars>>

\* noise_gen, used_seed = make_noise(NOISE_SEED); pad = zero_pad_width(...)
MakeNoise ==
    /\ pc = "make_noise"
    /\ \E rnd \in 0..MaxRandSeed :
        LET r == make_noise(cfg.NOISE_SEED, rnd)
        IN  /\ noise_gen' = r.gen
            /\ used_seed' = r.seed
    /\ noise_calls' = noise_calls + 1
    /\ pad' = zero_pad_width(cfg.TOTAL_FRAMES)
    /\ i' = 0
    /\ pc' = "loop"
    /\ UNCHANGED <<env, cfg, preview_only, exc, failed_in, exit_code, dirs,
                   image_status, img, base, preview_written, written, encVars,
                   fnVars>>

\* a frame loop that skips a frame whose save fails and goes on
FrameStepSkipping ==
    /\ pc = "loop"
    /\ i < cfg.TOTAL_FRAMES
    /\ LET paste == frame_paste(cfg, noise_gen, base, i)
           idx == frame_idx(i)
           outname == frame_name(cfg, pad, idx)
       IN  \E saved \in BOOLEAN :
            /\ written' = IF saved
                          THEN Append(written,
                                  [idx |-> idx,
                                   path |-> PathJoin(cfg.FRAMES_DIR, outname),
                                   x |-> paste.x, y |-> paste.y])
                          ELSE written
            /\ i' = i + 1
    /\ UNCHANGED <<env, cfg, preview_only, pc, exc, failed_in, exit_code, dirs,
                   image_status, img, base, preview_written, noise_gen,
                   used_seed, noise_calls, pad, encVars, fnVars>>

\* one iteration of the frame loop: compose frame i and save it
FrameStep ==
    /\ pc = "loop"
    /\ i < cfg.TOTAL_FRAMES
    /\ LET paste == frame_paste(cfg, noise_gen, base, i)
           idx == frame_idx(i)
           outname == frame_name(cfg, pad, idx)
       IN  \E saved \in BOOLEAN :
            IF saved
            THEN /\ written' = Append(written,
                        [idx |-> idx,
                         path |-> PathJoin(cfg.FRAMES_DIR, outname),
                         x |-> paste.x, y |-> paste.y])
                 /\ base' = base_after_frame(base, paste)
                 /\ i' = i + 1
                 /\ UNCHANGED <<pc, exc, failed_in>>
            ELSE /\ pc' = "raised"
                 /\ exc' = frame_except("OSError")
                 /\ failed_in' = "frame"
                 /\ UNCHANGED <<written, base, i>>
    /\ UNCHANGED <<env, cfg, preview_only, exit_code, dirs, image_status, img,
                   preview_written, noise_gen, used_seed, noise_calls, pad,
                   encVars, fnVars>>

\* the loop is exhausted: generate_frames returns
LoopDone ==
    /\ pc = "loop"
    /\ i >= cfg.TOTAL_FRAMES
    /\ pc' = "returned"
    /\ UNCHANGED <<env, cfg, preview_only, exc, failed_in, exit_code, dirs,
                   image_status, img, base, preview_written, noise_gen,
                   used_seed, noise_calls, pad, i, written, encVars, fnVars>>

\* main: generate_frames has returned or raised; the process exits
MainExit ==
    /\ pc \in {"returned", "raised"}
    /\ exit_code' = main_exit(exc)
    /\ pc' = "exited"
    /\ UNCHANGED <<env, cfg, preview_only, exc, failed_in, dirs, image_status,
                   img, base, preview_written, noise_gen, used_seed,
                   noise_calls, pad, i, written, encVars, fnVars>>

Next ==
    \/ Validate
    \/ EnsureDirs
    \/ LoadImage
    \/ BuildPreview
    \/ MakeNoise
    \/ FrameStep
    \/ LoopDone
    \/ MainExit

Spec == Init /\ [][Next]_vars

-----------------------------------------------------------------------------
(* Properties of the generator run *)

IsPrefix(s, t) == Len(s) <= Len(t) /\ SubSeq(t, 1, Len(s)) = s

C1_State ==
    /\ Len(written) = i
    /\ i <= Max(0, cfg.TOTAL_FRAMES)
    /\ \A k \in 1..Len(written) : written[k].idx = k
    /\ \A k, m \in 1..Len(written) : k # m => written[k].path # written[m].path
    /\ (pc \in {"returned", "exited"} /\ exc = "none" /\ ~preview_only
            => Len(written) = cfg.TOTAL_FRAMES)

\* C1: the frames are saved one at a time in increasing index order, each
\* once: in every state of a run, aborted runs included, the frames written
\* are exactly those numbered 1..k for some k <= TOTAL_FRAMES, in that order;
\* a step only ever appends one frame to them and removes none; and a run
\* that completes has written exactly 1..TOTAL_FRAMES.
C1_ContiguousPrefix ==
    /\ []C1_State
    /\ [][/\ IsPrefix(written, written')
          /\ Len(written') <= Len(written) + 1]_vars

\* C1 witness: a run aborted by a failed save of frame 3 has left frames 1, 2
C1_Witness ==
    /\ pc = "raised" /\ failed_in = "frame"
    /\ cfg.TOTAL_FRAMES = 3
    /\ Len(written) = 2

\* the preview-only run met nothing but (possibly) a bad TOTAL_FRAMES: every
\* other parameter is valid and no file operation failed
C2_OnlyTotalFramesVaries ==
    /\ preview_only
    /\ pc = "exited"
    /\ validate_config(cfg) \subseteq {"TOTAL_FRAMES"}
    /\ failed_in \in {"none", "validate"}

\* C2 as stated: a preview-only invocation ends successfully with the
\* preview written and no sequence frame, for every value of TOTAL_FRAMES.
C2_AsStated ==
    C2_OnlyTotalFramesVaries =>
        exit_code = 0 /\ preview_written /\ written = <<>>

\* C2 amended: a preview-only invocation never writes a sequence frame; with
\* a valid configuration (so TOTAL_FRAMES > 0) and no failing file operation
\* it ends successfully with exactly the preview written, whatever the
\* positive TOTAL_FRAMES; with TOTAL_FRAMES <= 0 it ends with a
\* configuration error (exit status 2) and writes nothing, not even the
\* preview.
C2_Amended ==
    preview_only =>
        /\ written = <<>>
        /\ (C2_OnlyTotalFramesVaries /\ cfg.TOTAL_FRAMES > 0
                => exit_code = 0 /\ preview_written)
        /\ (pc = "exited" /\ exit_code = 0 => preview_written)
        /\ (pc = "exited" /\ cfg.TOTAL_FRAMES <= 0
                => exit_code = 2 /\ exc = "ConfigError" /\ ~preview_written)

\* C2 witness: a preview-only run with the largest TOTAL_FRAMES has ended
\* successfully with the preview written
C2_Witness ==
    /\ preview_only /\ pc = "exited" /\ exit_code = 0
    /\ preview_written
    /\ cfg.TOTAL_FRAMES = MaxFrames

\* the configuration invariant of the data model: the listed numbers are
\* strictly positive, INPUT_IMAGE is not empty, the modes are enumerated
ConfigInvariant(c) ==
    /\ c.OUT_W > 0 /\ c.OUT_H > 0
    /\ c.DURATION_SECONDS > 0 /\ c.FPS > 0
    /\ c.TOTAL_FRAMES > 0 /\ c.SCALE > 0
    /\ c.INPUT_IMAGE # ""
    /\ c.MOTION_MODE \in {"perlin", "sine"}
    /\ c.BASE_POS_MODE \in {"center", "coords"}

\* C3: if a configuration parameter is invalid, generate_frames raises
\* ConfigError (as soon as it has taken its first step) with no directory
\* created and no preview or frame written; and in every state in which a
\* preview or a frame has been written the configuration invariant holds.
C3_InvalidConfigWritesNothing ==
    /\ ~ConfigInvariant(cfg) =>
            /\ dirs = {} /\ ~preview_written /\ written = <<>>
            /\ (pc # "validate" => exc = "ConfigError")
            /\ (pc = "exited" => exit_code = 2)
    /\ (preview_written \/ written # <<>>) => ConfigInvariant(cfg)

\* C3 witness: a run whose only invalid parameter is MOTION_MODE has raised
C3_Witness ==
    /\ pc = "raised" /\ exc = "ConfigError"
    /\ cfg.MOTION_MODE = "bounce"
    /\ ConfigInvariant([cfg EXCEPT !.MOTION_MODE = "sine"])

\* C4 as stated: when INPUT_IMAGE names a missing or unreadable file the run
\* ends with ConfigError, exit status 2, and no preview or frame is written.
C4_MissingImageIsConfigError ==
    (image_status \in {"missing", "unreadable"} /\ pc \in {"raised", "exited"})
        => /\ exc = "ConfigError"
           /\ (pc = "exited" => exit_code = 2)
           /\ ~preview_written /\ written = <<>>

\* C5 as stated: a failure while compositing or saving a sequence frame
\* leaves generate_frames as GenerationError, exit status 3 from main, like
\* a failure in image preparation or preview construction.
C5_FrameFailureIsGenerationError ==
    (failed_in = "frame" /\ pc \in {"raised", "exited"})
        => /\ exc = "GenerationError"
           /\ (pc = "exited" => exit_code = 3)

\* C8: the paste coordinates of every frame written are those a fresh
\* evaluation of frame i gives from the configuration, the reported seed and
\* the image size alone, whatever frames were evaluated before it; during
\* the loop the generator and the base position are the ones the run
\* started the loop with.
C8_PasteIsFunctionOfIndex ==
    LET gen0 == OpenSimplex(used_seed)
        base0 == compute_base_position(cfg, img.w, img.h)
    IN  /\ \A k \in 1..Len(written) :
              [x |-> written[k].x, y |-> written[k].y]
                  = frame_paste(cfg, gen0, base0, written[k].idx - 1)
        /\ (pc = "loop" => noise_gen = gen0 /\ base = base0)

\* C8 witness: three noise-driven frames written, not all at one position
C8_Witness ==
    /\ cfg.MOTION_MODE = "perlin"
    /\ Len(written) = 3
    /\ written[1].x # written[2].x
    /\ written[2].y # written[3].y

\* the state of the sequence driver: INIT validates, creates the
\* directories and loads the image; PREVIEW builds and saves the preview;
\* GENERATING prepares the noise and runs the frame loop; DONE is a
\* successful return; FAILED is an exception leaving generate_frames
RunState(p, e) ==
    IF e # "none" THEN "FAILED"
    ELSE CASE p \in {"validate", "ensure_dirs", "load"} -> "INIT"
           [] p = "preview" -> "PREVIEW"
           [] p \in {"make_noise", "loop"} -> "GENERATING"
           [] p \in {"returned", "exited"} -> "DONE"

\* the moves INIT -> PREVIEW -> GENERATING -> DONE, PREVIEW -> DONE when the
\* run is preview-only, and any state -> FAILED
RunMove(s, t) ==
    \/ s = t
    \/ s = "INIT" /\ t = "PREVIEW"
    \/ s = "PREVIEW" /\ t = "GENERATING" /\ ~preview_only
    \/ s = "PREVIEW" /\ t = "DONE" /\ preview_only
    \/ s = "GENERATING" /\ t = "DONE"
    \/ s \notin {"DONE", "FAILED"} /\ t = "FAILED"

C14_State ==
    /\ written # <<>> => preview_written
    /\ RunState(pc, exc) = "GENERATING" => preview_written /\ ~preview_only
    /\ RunState(pc, exc) = "DONE" => preview_written
    /\ (RunState(pc, exc) = "DONE" /\ ~preview_only)
          => /\ Len(written) = cfg.TOTAL_FRAMES
             /\ \A k \in 1..cfg.TOTAL_FRAMES : written[k].idx = k
    /\ RunState(pc, exc) \in {"INIT", "PREVIEW"} => written = <<>>

C14_Step ==
    /\ RunMove(RunState(pc, exc), RunState(pc', exc'))
    /\ preview_written' # preview_written
          => RunState(pc, exc) = "PREVIEW" /\ preview_written' /\ written = <<>>
    /\ RunState(pc', exc') = "FAILED"
          => written' = written /\ preview_written' = preview_written
    /\ RunState(pc, exc) = "FAILED"
          => /\ exc' = exc /\ dirs' = dirs
             /\ pc' \in {"raised", "exited"}

\* C14: every run moves INIT -> PREVIEW -> GENERATING -> DONE (a preview-only
\* run from PREVIEW to DONE): the preview is saved before any frame and in
\* both modes, DONE of a full run is reached only with all TOTAL_FRAMES
\* frames written, and an error in any state makes the run FAILED, after
\* which nothing more is written.
C14_RunStates == []C14_State /\ [][C14_Step]_vars

\* C14 witness: a full run of 3 frames failed on its second frame and has
\* exited: the preview and frame 1 are what it wrote
C14_Witness ==
    /\ pc = "exited" /\ exit_code # 0 /\ ~preview_only
    /\ RunState(pc, exc) = "FAILED" /\ failed_in = "frame"
    /\ cfg.TOTAL_FRAMES = 3
    /\ preview_written /\ Len(written) = 1

\* a full run of 3 frames is DONE with the preview and all 3 frames
C14_WitnessDone ==
    /\ pc = "exited" /\ exit_code = 0 /\ ~preview_only
    /\ RunState(pc, exc) = "DONE"
    /\ cfg.TOTAL_FRAMES = 3
    /\ preview_written /\ Len(written) = 3

\* C15 as stated: the noise generator is constructed (and its seed resolved)
\* at most once per run, only on entering GENERATING and only when
\* MOTION_MODE is perlin: none is constructed in a preview-only run nor in a
\* run whose MOTION_MODE is sine.
C15_NoiseOnlyForPerlin ==
    /\ noise_calls <= 1
    /\ noise_calls > 0
          => /\ ~preview_only
             /\ preview_written
             /\ cfg.MOTION_MODE = "perlin"
    /\ (preview_only \/ cfg.MOTION_MODE = "sine")
          => noise_calls = 0 /\ noise_gen = OpenSimplex(-1) /\ used_seed = -1

\* what holds of the code: at most one make_noise call per run, made after
\* the preview of a run that is not preview-only, whatever MOTION_MODE is
C15_OncePerFullRun ==
    /\ noise_calls <= 1
    /\ noise_calls > 0 => ~preview_only /\ preview_written
    /\ (RunState(pc, exc) = "DONE" /\ ~preview_only) => noise_calls = 1
    /\ written # <<>> => noise_calls = 1

\* a sine run has written its frames with a noise generator constructed
C15_SineRunMadeNoise ==
    /\ cfg.MOTION_MODE = "sine" /\ ~preview_only
    /\ pc = "exited" /\ exit_code = 0
    /\ noise_calls = 1 /\ used_seed # -1

\* the image was loaded and scaled: load_and_scale_image has returned
ImageScaled == image_status = "ok" /\ img # NoSize

\* C12 as stated: whenever TARGET_PIXEL_WIDTH is present, a run that passes
\* validation scales the source image to width exactly TARGET_PIXEL_WIDTH
\* and height round(h0 * TARGET_PIXEL_WIDTH / w0), whatever SCALE is; SCALE
\* gives the size only when TARGET_PIXEL_WIDTH is unset.
C12_TargetWidthOverridesScale ==
    ImageScaled =>
        \E size0 \in SourceSizes :
            IF cfg.TARGET_PIXEL_WIDTH.set
            THEN /\ img.w = cfg.TARGET_PIXEL_WIDTH.val
                 /\ img.h = RoundDiv(size0.h * cfg.TARGET_PIXEL_WIDTH.val, size0.w)
            ELSE /\ img.w = RoundDiv(size0.w * cfg.SCALE, 100)
                 /\ img.h = RoundDiv(size0.h * cfg.SCALE, 100)

\* what holds of the code: the same, for a TARGET_PIXEL_WIDTH other than 0
C12_NonZeroTargetWidth ==
    (ImageScaled /\ cfg.TARGET_PIXEL_WIDTH # Set(0)) => C12_TargetWidthOverridesScale

\* a run with TARGET_PIXEL_WIDTH=40 and an 80x40 source has scaled it to 40x20
C12_ReachedTargetWidth ==
    /\ ImageScaled /\ cfg.TARGET_PIXEL_WIDTH = Set(40)
    /\ img = [w |-> 40, h |-> 20]

-----------------------------------------------------------------------------
(* encode_webm.py *)

\* the module globals of encode_webm.py, read from the environment at import
EncLoadConfig(e) ==
    [FRAMES_DIR |-> EnvOr(e.FRAMES_DIR, "output/frames"),
     FINAL_DIR |-> EnvOr(e.FINAL_DIR, "output/final"),
     BASENAME |-> EnvOr(e.BASENAME, "testframe"),
     FPS |-> EnvOr(e.FPS, 30),
     TOTAL_FRAMES |-> EnvOr(e.TOTAL_FRAMES, 30 * 30),
     FFMPEG_BIN |-> EnvOr(e.FFMPEG_BIN, "ffmpeg")]

\* encode_webm.zero_pad_width
enc_zero_pad_width(total) == Max(4, Len(Str(total)))

\* build_pattern_and_out
build_pattern_and_out(ec) ==
    LET width == enc_zero_pad_width(ec.TOTAL_FRAMES)
    IN  [pad |-> width,
         pattern |-> ec.BASENAME \o "_%0" \o Str(width) \o "d.png",
         outpath |-> PathJoin(ec.FINAL_DIR, ec.BASENAME \o ".webm")]

\* the file name the encoder's image-sequence reader opens for frame number
\* n under the pattern <basename>_%0<width>d.png
pattern_file(basename, width, n) ==
    basename \o "_" \o ZeroPad(n, width) \o ".png"

\* run_ffmpeg: the argv it hands to subprocess.run
run_ffmpeg_cmd(ec, pat, out) ==
    <<ec.FFMPEG_BIN, "-y", "-framerate", Str(ec.FPS), "-i", pat,
      "-c:v", "libvpx-vp9", "-pix_fmt", "yuva420p", "-auto-alt-ref", "0", out>>

\* main: the command line it prints when the encoder binary is not found
printed_command(ec, pat, out) ==
    ec.FFMPEG_BIN \o " -framerate " \o Str(ec.FPS) \o " -i " \o pat
        \o " -c:v libvpx-vp9 -pix_fmt yuva420p -auto-alt-ref 0 " \o out

RECURSIVE Join(_)
\* " ".join(words)
Join(words) ==
    IF words = <<>> THEN ""
    ELSE IF Len(words) = 1 THEN words[1]
    ELSE words[1] \o " " \o Join(Tail(words))

\* environments under which both scripts run
EncEnvs ==
    {[NoEnv EXCEPT !.TOTAL_FRAMES = tot, !.DURATION_SECONDS = dur,
                   !.FPS = fps, !.BASENAME = bn] :
        tot \in {Unset, Set(5), Set(900), Set(10000)},
        dur \in {Unset, Set(1), Set(400)},
        fps \in {Unset, Set(2), Set(30)},
        bn \in {Unset, Set("clip")}}

\* loop indices at which the generator's frame names are looked at
SampleLoopIndices(total) == {0, 8, 9, total - 1} \cap 0..(total - 1)

InitEnc ==
    /\ env \in EncEnvs
    /\ cfg = LoadConfig(env)
    /\ preview_only = FALSE
    /\ GenStart
    /\ ecfg = EncLoadConfig(env)
    /\ epc = "start"
    /\ fs \in [frames_dir : BOOLEAN, ffmpeg : BOOLEAN]
    /\ epad = 0
    /\ pattern = ""
    /\ outpath = ""
    /\ proc_cmd = <<>>
    /\ proc_cwd = ""
    /\ printed = <<>>
    /\ erc = -1
    /\ gen_names = {}
    /\ call = NoCall
    /\ noise_log = <<>>

\* the generator names the frame of loop index k: pad = zero_pad_width(
\* TOTAL_FRAMES), idx = k + 1, outname = fname_template.format(idx)
GenNameFrame ==
    /\ validate_config([cfg EXCEPT !.INPUT_IMAGE = "in.png"]) = {}
    /\ \E k \in SampleLoopIndices(cfg.TOTAL_FRAMES) :
        gen_names' = gen_names \cup
            {[idx |-> frame_idx(k),
              name |-> frame_name(cfg, zero_pad_width(cfg.TOTAL_FRAMES),
                                  frame_idx(k))]}
    /\ UNCHANGED <<env, cfg, genVars, ecfg, epc, fs, epad, pattern, outpath,
                   proc_cmd, proc_cwd, printed, erc, fnVars>>

\* encoder main: the frames directory test, then build_pattern_and_out
EncBuild ==
    /\ epc = "start"
    /\ IF ~fs.frames_dir
       THEN /\ epc' = "done"
            /\ erc' = 2                      \* EncoderError caught in main
            /\ UNCHANGED <<epad, pattern, outpath>>
       ELSE LET r == build_pattern_and_out(ecfg)
            IN  /\ epc' = "built"
                /\ epad' = r.pad
                /\ pattern' = r.pattern
                /\ outpath' = r.outpath
                /\ erc' = erc
    /\ UNCHANGED <<env, cfg, genVars, ecfg, fs, proc_cmd, proc_cwd, printed,
                   gen_names, fnVars>>

\* encoder main: ffmpeg_exists(), so run_ffmpeg(pattern, outpath)
EncRun ==
    /\ epc = "built"
    /\ fs.ffmpeg
    /\ \E result \in {"ok", "start_fails", "exit_nonzero"} :
        /\ proc_cmd' = IF result = "start_fails" THEN <<>>
                       ELSE run_ffmpeg_cmd(ecfg, pattern, outpath)
        /\ proc_cwd' = IF result = "start_fails" THEN "" ELSE ecfg.FRAMES_DIR
        /\ erc' = IF result = "ok" THEN 0 ELSE 2
    /\ epc' = "done"
    /\ UNCHANGED <<env, cfg, genVars, ecfg, fs, epad, pattern, outpath,
                   printed, gen_names, fnVars>>

\* encoder main: the binary is not found, so the command is printed
EncPrint ==
    /\ epc = "built"
    /\ ~fs.ffmpeg
    /\ printed' = <<"", "cd " \o ecfg.FRAMES_DIR,
                    printed_command(ecfg, pattern, outpath), "">>
    /\ erc' = 0
    /\ epc' = "done"
    /\ UNCHANGED <<env, cfg, genVars, ecfg, fs, epad, pattern, outpath,
                   proc_cmd, proc_cwd, gen_names, fnVars>>

NextEnc ==
    \/ GenNameFrame
    \/ EncBuild
    \/ EncRun
    \/ EncPrint

SpecEnc == InitEnc /\ [][NextEnc]_vars

\* C6 as stated: under every environment the pad width of the encoder's
\* input pattern is the pad width the generator names its frames with, so
\* the pattern expands to the name of every frame the generator writes.
C6_PatternMatchesFrames ==
    epc \in {"built", "done"} /\ pattern # "" =>
        /\ epad = zero_pad_width(cfg.TOTAL_FRAMES)
        /\ \A f \in gen_names :
              pattern_file(ecfg.BASENAME, epad, f.idx) = f.name

\* C7 as stated: when the encoder binary is not found (the frames directory
\* being there), main starts no process, prints the command line that
\* run_ffmpeg would have executed, to be run from FRAMES_DIR, and returns 0.
C7_PrintedCommandIsRunCommand ==
    epc = "done" /\ fs.frames_dir /\ ~fs.ffmpeg =>
        /\ proc_cmd = <<>>
        /\ erc = 0
        /\ \E n \in 1..Len(printed) : printed[n] = "cd " \o ecfg.FRAMES_DIR
        /\ \E n \in 1..Len(printed) :
              printed[n] = Join(run_ffmpeg_cmd(ecfg, pattern, outpath))

RECURSIVE Pow10(_)
Pow10(k) == IF k = 0 THEN 1 ELSE 10 * Pow10(k - 1)

\* the number of decimal digits of a frame count n >= 0: the d with
\* 10^(d-1) <= n < 10^d, and 1 for n = 0
NumDigits(n) == IF n = 0 THEN 1 ELSE CHOOSE d \in 1..9 : Pow10(d - 1) <= n /\ n < Pow10(d)

\* C13: zero_pad_width(total) = max(4, number of decimal digits of total) in
\* the generator and in the encoder (5 -> 4, 900 -> 4, 10000 -> 5); so every
\* frame number 1..TOTAL_FRAMES fits in the pad width, and the frame file
\* names of a run all have the same length and differ for different frames.
C13_PadWidth ==
    /\ \A total \in {5, 900, 10000, cfg.TOTAL_FRAMES, ecfg.TOTAL_FRAMES} :
          total >= 0 =>
              /\ zero_pad_width(total) = Max(4, NumDigits(total))
              /\ enc_zero_pad_width(total) = Max(4, NumDigits(total))
    /\ zero_pad_width(5) = 4 /\ zero_pad_width(900) = 4 /\ zero_pad_width(10000) = 5
    /\ enc_zero_pad_width(5) = 4 /\ enc_zero_pad_width(900) = 4
    /\ enc_zero_pad_width(10000) = 5
    /\ (epc \in {"built", "done"} /\ pattern # "")
          => epad = Max(4, NumDigits(ecfg.TOTAL_FRAMES))
    /\ \A f \in gen_names :
          /\ 1 <= f.idx /\ f.idx <= cfg.TOTAL_FRAMES
          /\ f.idx < Pow10(zero_pad_width(cfg.TOTAL_FRAMES))
          /\ Len(f.name) = Len(cfg.BASENAME) + 1 + zero_pad_width(cfg.TOTAL_FRAMES) + 4
    /\ \A f, g \in gen_names :
          /\ Len(f.name) = Len(g.name)
          /\ (f.idx # g.idx => f.name # g.name)

\* C13 witness: a run of 10000 frames has named its first and its last
\* frame, five digits each, and the encoder has built its pattern
C13_Witness ==
    /\ cfg.TOTAL_FRAMES = 10000 /\ ecfg.TOTAL_FRAMES = 10000
    /\ epc = "built" /\ epad = 5
    /\ \E f, g \in gen_names :
          /\ f.idx = 1 /\ g.idx = 10000
          /\ f.name = cfg.BASENAME \o "_00001.png"
          /\ g.name = cfg.BASENAME \o "_10000.png"

-----------------------------------------------------------------------------
(* compute_base_position, make_noise, perlin_like_offsets and             *)
(* sine_offsets called on their own: a behaviour is either one call of    *)
(* compute_base_position or of an offsets function, or a series of        *)
(* make_noise calls                                                        *)

\* make_noise calls followed in one behaviour
MaxCalls == 3

\* seed arguments: None, "", "123", "07", "-3", " 5 ", "abc", " ", 42
SeedArgs ==
    {SeedNone, SeedStr(<<>>), SeedStr(<<"1", "2", "3">>), SeedStr(<<"0", "7">>),
     SeedStr(<<"-", "3">>), SeedStr(<<" ", "5", " ">>),
     SeedStr(<<"a", "b", "c">>), SeedStr(<<" ">>), SeedInt(42)}

DigitChar(d) == DigitStr(d)

RECURSIVE NatChars(_)
NatChars(n) ==
    IF n < 10 THEN <<DigitChar(n)>>
    ELSE Append(NatChars(n \div 10), DigitChar(n % 10))

\* str(n), as the letters of the string
StrChars(n) == IF n < 0 THEN <<"-">> \o NatChars(-n) ELSE NatChars(n)

\* times (thousandths of a second), amplitudes (pixels), time scales and
\* durations (thousandths of a second), cycle counts (tenths) tried
TimeSamples == {-500, 0, 250, 500, 1000, 7300}
AmpSamples == {-18, 0, 5, 18}
ScaleSamples == {0, 2000, 12000}
CycleSamples == {0, 5, 10}

InitFn ==
    /\ env = NoEnv
    /\ cfg = LoadConfig(NoEnv)
    /\ preview_only = FALSE
    /\ GenStart
    /\ EncIdle
    /\ call = NoCall
    /\ noise_log = <<>>

\* gen, used = make_noise(seed)
CallMakeNoise ==
    /\ call = NoCall
    /\ Len(noise_log) < MaxCalls
    /\ \E seed \in SeedArgs, rnd \in 0..MaxRandSeed :
        LET r == make_noise(seed, rnd)
        IN  noise_log' = Append(noise_log,
                [arg |-> seed, seed |-> r.seed, gen |-> r.gen, of |-> 0])
    /\ UNCHANGED <<env, cfg, genVars, encVars, call>>

\* make_noise(str(used)): the seed an earlier call reported is supplied
\* explicitly, the way NOISE_SEED supplies it
CallMakeNoiseAgain ==
    /\ call = NoCall
    /\ Len(noise_log) < MaxCalls
    /\ \E k \in 1..Len(noise_log), rnd \in 0..MaxRandSeed :
        LET seed == SeedStr(StrChars(noise_log[k].seed))
            r == make_noise(seed, rnd)
        IN  noise_log' = Append(noise_log,
                [arg |-> seed, seed |-> r.seed, gen |-> r.gen, of |-> k])
    /\ UNCHANGED <<env, cfg, genVars, encVars, call>>

\* dx, dy = perlin_like_offsets(gen, t, amp_x, amp_y, timescale, ox, oy)
CallPerlin ==
    /\ call = NoCall /\ noise_log = <<>>
    /\ \E seed \in 0..MaxRandSeed, t \in TimeSamples, ax \in AmpSamples,
          ay \in AmpSamples, ts \in ScaleSamples, oy \in {0, 100} :
        LET r == perlin_like_offsets(OpenSimplex(seed), t, ax, ay, ts, 0, oy)
        IN  call' = [fn |-> "perlin_like_offsets", t |-> t, amp_x |-> ax,
                     amp_y |-> ay, dx |-> r.dx, dy |-> r.dy]
    /\ UNCHANGED <<env, cfg, genVars, encVars, noise_log>>

\* dx, dy = sine_offsets(t, duration, amp_x, amp_y, cycles_x, cycles_y)
CallSine ==
    /\ call = NoCall /\ noise_log = <<>>
    /\ \E t \in TimeSamples, dur \in ScaleSamples, ax \in AmpSamples,
          ay \in AmpSamples, cx \in CycleSamples, cy \in CycleSamples :
        LET r == sine_offsets(t, dur, ax, ay, cx, cy)
        IN  call' = [fn |-> "sine_offsets", t |-> t, amp_x |-> ax,
                     amp_y |-> ay, dx |-> r.dx, dy |-> r.dy]
    /\ UNCHANGED <<env, cfg, genVars, encVars, noise_log>>

\* canvas sizes, image sizes and centre offsets tried: the differences
\* OUT_W - img_w and OUT_H - img_h are even, odd, zero and negative
CanvasSamples == {[w |-> 200, h |-> 100], [w |-> 101, h |-> 64]}
ImageSamples == {[w |-> 50, h |-> 20], [w |-> 51, h |-> 21], [w |-> 101, h |-> 64],
                 [w |-> 300, h |-> 201], [w |-> 301, h |-> 200]}
OffsetSamples == {-3, 0, 5}

\* with the module globals set as tests/test_generation.py sets them:
\* x, y = compute_base_position(img_w, img_h)
CallBasePosition ==
    /\ call = NoCall /\ noise_log = <<>>
    /\ \E canvas \in CanvasSamples, image \in ImageSamples,
          off_x \in OffsetSamples, off_y \in OffsetSamples,
          mode \in {"center", "coords"} :
        LET c == [cfg EXCEPT !.OUT_W = canvas.w, !.OUT_H = canvas.h,
                             !.BASE_POS_MODE = mode,
                             !.BASE_CENTER_OFFSET_X = off_x,
                             !.BASE_CENTER_OFFSET_Y = off_y]
            r == compute_base_position(c, image.w, image.h)
        IN  call' = [fn |-> "compute_base_position", mode |-> mode,
                     out_w |-> canvas.w, out_h |-> canvas.h,
                     img_w |-> image.w, img_h |-> image.h,
                     off_x |-> off_x, off_y |-> off_y, x |-> r.x, y |-> r.y]
    /\ UNCHANGED <<env, cfg, genVars, encVars, noise_log>>

NextFn ==
    \/ CallMakeNoise
    \/ CallMakeNoiseAgain
    \/ CallPerlin
    \/ CallSine
    \/ CallBasePosition

SpecFn == InitFn /\ [][NextFn]_vars

\* a seed argument that is given: not None and not the empty string
Explicit(seed) == ~(seed.kind = "none" \/ (seed.kind = "str" /\ seed.chars = <<>>))

\* a given seed that is an int or a string int() accepts
IntegerSeed(seed) ==
    Explicit(seed) /\ (seed.kind = "int" \/ ParseInt(seed.chars).ok)

\* the two generators give the same noise value at the query points tried
SameNoise(g1, g2) ==
    \A x \in TimeSamples, y \in {0, 33330} : noise2d(g1, x, y) = noise2d(g2, x, y)

\* C9 as stated: two make_noise calls with the same explicit seed report
\* the same seed and give generators with the same noise values; and a seed
\* drawn when none was supplied, supplied explicitly, is reported again.
C9_AsStated ==
    /\ \A a, b \in 1..Len(noise_log) :
          (noise_log[a].arg = noise_log[b].arg /\ Explicit(noise_log[a].arg))
              => /\ noise_log[a].seed = noise_log[b].seed
                 /\ SameNoise(noise_log[a].gen, noise_log[b].gen)
    /\ \A b \in 1..Len(noise_log) :
          noise_log[b].of # 0
              => /\ noise_log[b].seed = noise_log[noise_log[b].of].seed
                 /\ SameNoise(noise_log[b].gen, noise_log[noise_log[b].of].gen)

\* C9 amended: two make_noise calls with the same explicit seed that is an
\* int or a string int() accepts report that integer both times and give
\* generators with the same noise values; a seed reported by any call (one
\* drawn because no seed, or no usable seed, was supplied included), when
\* supplied explicitly as str(seed), is reported again with the same noise.
C9_Amended ==
    /\ \A a, b \in 1..Len(noise_log) :
          (noise_log[a].arg = noise_log[b].arg /\ IntegerSeed(noise_log[a].arg))
              => /\ noise_log[a].seed = noise_log[b].seed
                 /\ SameNoise(noise_log[a].gen, noise_log[b].gen)
    /\ \A b \in 1..Len(noise_log) :
          noise_log[b].of # 0
              => /\ noise_log[b].seed = noise_log[noise_log[b].of].seed
                 /\ SameNoise(noise_log[b].gen, noise_log[noise_log[b].of].gen)

\* C9 witness: make_noise("123") twice, both reporting 123, after a call
\* without a seed whose drawn seed was then supplied explicitly
C9_Witness ==
    /\ Len(noise_log) = 3
    /\ noise_log[1].arg = SeedStr(<<"1", "2", "3">>)
    /\ noise_log[2].arg = noise_log[1].arg
    /\ noise_log[2].seed = 123
    /\ noise_log[3].of = 2

\* C9 witness of the second half: a seed drawn by make_noise(None) and then
\* supplied explicitly
C9_WitnessDrawn ==
    /\ Len(noise_log) = 2
    /\ noise_log[1].arg = SeedNone
    /\ noise_log[1].seed = MaxRandSeed
    /\ noise_log[2].of = 1
    /\ noise_log[2].seed = MaxRandSeed

\* C10 as stated: |dx| <= amp_x and |dy| <= amp_y for all t, amp_x, amp_y
\* (offsets in thousandths of a pixel).
C10_AsStated ==
    call.fn \in {"perlin_like_offsets", "sine_offsets"} =>
        /\ Abs(call.dx) <= 1000 * call.amp_x
        /\ Abs(call.dy) <= 1000 * call.amp_y

\* C10 amended: for all t, amp_x and amp_y, of either sign, both functions
\* return |dx| <= |amp_x| and |dy| <= |amp_y|; so |dx| <= amp_x and
\* |dy| <= amp_y whenever the amplitudes are not negative.
C10_Amended ==
    call.fn \in {"perlin_like_offsets", "sine_offsets"} =>
        /\ Abs(call.dx) <= 1000 * Abs(call.amp_x)
        /\ Abs(call.dy) <= 1000 * Abs(call.amp_y)

\* C10 witness: sine_offsets reaches the full amplitude with a negative
\* amp_x (a quarter cycle: t = 0.25, duration 1, one cycle)
C10_Witness ==
    /\ call.fn = "sine_offsets"
    /\ call.amp_x = -18
    /\ call.dx = -18000
    /\ call.dy # 0


-----------------------------------------------------------------------------
(* Claims on the functions called alone: placement *)

\* q is the floor of n / 2: the one integer with 2q <= n <= 2q + 1
IsFloorHalf(q, n) == 2 * q <= n /\ n <= 2 * q + 1

\* the formula of the claim for one axis: v = floor((canvas - image) / 2) + off
CenteredFormula(call_v, off, canvas, image) == IsFloorHalf(call_v - off, canvas - image)

\* C11 as stated: in center mode compute_base_position(img_w, img_h) returns
\* exactly x = floor((OUT_W - img_w) / 2) + BASE_CENTER_OFFSET_X and
\* y = floor((OUT_H - img_h) / 2) + BASE_CENTER_OFFSET_Y, for every canvas
\* size, image size (odd differences and images larger than the canvas
\* included) and offset; canvas 200x100, image 50x20, offset (5, -3) gives
\* (80, 47).
C11_AsStated ==
    (call.fn = "compute_base_position" /\ call.mode = "center") =>
        /\ CenteredFormula(call.x, call.off_x, call.out_w, call.img_w)
        /\ CenteredFormula(call.y, call.off_y, call.out_h, call.img_h)
        /\ (/\ call.out_w = 200 /\ call.out_h = 100
            /\ call.img_w = 50 /\ call.img_h = 20
            /\ call.off_x = 5 /\ call.off_y = -3) => (call.x = 80 /\ call.y = 47)

\* C11 amended: the same formula, for every canvas size, image size (odd
\* differences and images larger than the canvas included) and offset;
\* canvas 200x100, image 50x20, offset (5, -3) gives (80, 37), since
\* (100 - 20) // 2 - 3 = 37.
C11_Amended ==
    (call.fn = "compute_base_position" /\ call.mode = "center") =>
        /\ CenteredFormula(call.x, call.off_x, call.out_w, call.img_w)
        /\ CenteredFormula(call.y, call.off_y, call.out_h, call.img_h)
        /\ (/\ call.out_w = 200 /\ call.out_h = 100
            /\ call.img_w = 50 /\ call.img_h = 20
            /\ call.off_x = 5 /\ call.off_y = -3) => (call.x = 80 /\ call.y = 37)

\* C11 witness: the call of tests/test_generation.py, lines 36-43
C11_Witness ==
    /\ call.fn = "compute_base_position" /\ call.mode = "center"
    /\ call.out_w = 200 /\ call.out_h = 100
    /\ call.img_w = 50 /\ call.img_h = 20
    /\ call.off_x = 5 /\ call.off_y = -3
    /\ call.x = 80 /\ call.y = 37

\* an image wider and taller than the canvas with odd differences
\* (101 - 300 = -199, 64 - 201 = -137) and offset (5, -3) is placed at
\* floor(-199 / 2) + 5 = -95, floor(-137 / 2) - 3 = -72
C11_WitnessLarger ==
    /\ call.fn = "compute_base_position" /\ call.mode = "center"
    /\ call.out_w = 101 /\ call.out_h = 64
    /\ call.img_w = 300 /\ call.img_h = 201
    /\ call.off_x = 5 /\ call.off_y = -3
    /\ call.x = -95 /\ call.y = -72

=============================================================================
